---- MODULE Spec2Model ----
(***************************************************************************)
(* Model of src/service/UserService.js (MizoneGit/dashboardApi).           *)
(*                                                                         *)
(* Every public method of UserService is an async function; each `await`   *)
(* is one atomic step of the calling request, so a request is a small      *)
(* process whose position (pc) is the await it is suspended on.  The       *)
(* synchronous code between two awaits belongs to the step of the await    *)
(* that precedes it.  The wall clock, a token's lifetime and a write that  *)
(* was started without await do not wait for any request.  The stores      *)
(* (UserModel, RegistrationCodeModel, TokenModel behind TokenService),     *)
(* bcrypt, the token signer and the mailer are collaborators whose code    *)
(* is not in src/; they are modelled from sections 3 and 6 of the          *)
(* specification.                                                          *)
(***************************************************************************)
EXTENDS Integers, Sequences, FiniteSets, TLC

(* ------------------------------ bounds --------------------------------- *)

\* Cap on UserModel.create calls (accounts in the UserStore).
MaxUsers == 2

\* Cap on the number of token pairs the signer issues.
MaxSerial == 3

\* The clock runs from 0 to MaxTime seconds, advancing TickStep at a time.
MaxTime == 125

TickStep == 25

\* Cap on the un-awaited confirmation writes in flight for one email.
MaxPending == 2

\* The instant at which the server's local time is set back, in a time zone
\* that has such a change within the run.
FallBackAt == 60

(* --------------------------- program constants ------------------------- *)

\* date.setMinutes(date.getMinutes() + 1): one minute of local time.
CodeLifetime == 60

\* By how much local time is set back when daylight saving ends.
DstShift == 3600

\* Date.prototype.getSeconds() is the second within the minute, 0..59.
SecondsPerMinute == 60

(* ----------------------------- value domains --------------------------- *)

Procs == {"p1", "p2"}

Emails == {"a@x.com", "b@x.com"}

Passwords == {"pw1", "pw2"}

Codes == {"1111", "2222"}

Names == {"Ann", "Bob"}

\* An empty request value (`!refreshToken` is true) and a value that was
\* never issued by the signer.
EmptyToken == [uid |-> 0, serial |-> 0]

ForgedToken == [uid |-> 1, serial |-> 0]

VARIABLES
    users,          \* UserStore: sequence of accounts, id = position
    regCodes,       \* RegistrationCodeStore: set of records
    sessions,       \* SessionStore: set of [user, refreshToken]
    outbox,         \* mails handed to MailService: set of <<email, code>>
    now,            \* wall clock, in seconds
    fallsBack,      \* does the server's local time fall back at FallBackAt
    issued,         \* refresh tokens the signer has issued so far
    expired,        \* issued refresh tokens that no longer validate
    pendingConfirm, \* per email: un-awaited confirmation writes in flight
    consumed,       \* history: token values some refresh call succeeded with
    lastIssue,      \* history: when a code was last stored for an email, or -1
    verified,       \* history: emails whose stored code a verify call accepted
    revoked,        \* history: emails whose confirmed code a later issuance
                    \* replaced, with no accepted verify call since
    carried,        \* history: tokens that were stored for an account when a
                    \* profile or password change of that account was written
    loggedOut,      \* history: tokens whose stored record a logout removed,
                    \* kept for runs of one request at a time
    pc,             \* per request: the await it is suspended on
    args,           \* per request: the method and its arguments
    loc,            \* per request: local variables that survive an await
    rv,             \* per request: what the call returned or threw
    atCall          \* history (sequential use): the world when the call started

vars == <<users, regCodes, sessions, outbox, now, fallsBack, issued, expired,
          pendingConfirm, consumed, lastIssue, verified, revoked, carried,
          loggedOut, pc, args, loc, rv, atCall>>

history == <<consumed, lastIssue, verified, revoked, carried, loggedOut>>

stores == <<users, regCodes, sessions, outbox, pendingConfirm>>

NoCall == [op |-> "none"]

NoLocals == [id |-> 0, email |-> "", password |-> <<>>, hash |-> <<>>,
             token |-> EmptyToken, otp |-> "", currentDate |-> 0,
             expiresIn |-> 0]

NoResult == [outcome |-> "none"]

(* ------------------------- external capabilities ----------------------- *)

\* bcrypt.hash(password, 7): a digest that is not the plaintext.
BcryptHash(password) == <<"bcrypt", password>>

\* bcrypt.compare(password, digest).
BcryptCompare(password, digest) == digest = BcryptHash(password)

\* TokenService.generateTokens(payload).refreshToken: a value the signer has
\* not issued before, carrying the account id as its claim.
GenerateTokens(uid) == [uid |-> uid, serial |-> Cardinality(issued) + 1]

\* TokenService.validateRefreshToken(token): the claims, or null (0).
ValidateRefreshToken(token) ==
    IF token \in issued /\ token \notin expired THEN token.uid ELSE 0

\* TokenService.findRefreshToken(token): is there a stored record with
\* exactly this value.
FindRefreshToken(token) == \E s \in sessions : s.refreshToken = token

\* TokenService.removeRefreshToken(token): the store without the records of
\* this value; absence is not an error.
RemoveRefreshToken(sess, token) == {s \in sess : s.refreshToken # token}

\* TokenService.saveRefreshToken(userId, token): overwrite by account id.
SaveRefreshToken(sess, uid, token) ==
    {s \in sess : s.user # uid} \cup {[user |-> uid, refreshToken |-> token]}

\* UserModel.findOne({ where: { email } }): id of the first match, or 0.
FindUserByEmail(email) ==
    IF \E i \in 1..Len(users) : users[i].email = email
    THEN CHOOSE i \in 1..Len(users) :
            /\ users[i].email = email
            /\ \A j \in 1..Len(users) : users[j].email = email => i <= j
    ELSE 0

\* UserModel.findByPk(userId): the id, or 0 for null.
FindUserByPk(userId) == IF userId \in 1..Len(users) THEN userId ELSE 0

\* RegistrationCodeModel.findOne({ where: { email } }) found something.
HasCode(email) == \E r \in regCodes : r.email = email

CodeOf(email) == CHOOSE r \in regCodes : r.email = email

\* RegistrationCodeModel.findOne({ where: { email, otp: code } }).
HasCodeWithOtp(email, code) ==
    \E r \in regCodes : r.email = email /\ r.otp = code

\* RegistrationCodeModel.upsert(record): insert, or overwrite by email key.
UpsertCode(codes, rec) == {r \in codes : r.email # rec.email} \cup {rec}

\* RegistrationCodeModel.destroy({ where: { email } }).
DestroyCode(codes, email) == {r \in codes : r.email # email}

\* Date.prototype.getSeconds().
GetSeconds(date) == date % SecondsPerMinute

\* `date.setMinutes(date.getMinutes() + 1)`: the instant whose local time is
\* one minute later than that of date.  Where local time is set back by
\* DstShift at FallBackAt, a local time that occurs twice denotes its first
\* occurrence, so the minute that crosses the change is DstShift longer and,
\* in the repeated span after it, the result lies DstShift earlier.
AddMinute(date) ==
    IF ~fallsBack
    THEN date + CodeLifetime
    ELSE IF date < FallBackAt
    THEN IF date + CodeLifetime < FallBackAt
         THEN date + CodeLifetime
         ELSE date + CodeLifetime + DstShift
    ELSE IF date + CodeLifetime < FallBackAt + DstShift
         THEN date + CodeLifetime - DstShift
         ELSE date + CodeLifetime

(* ------------------------------ requests ------------------------------- *)

Idle(p) == pc[p] = "idle"

\* Requests that will still ask the signer for a token pair.
Issuing == {q \in Procs : pc[q] \in {"signUp_findCode", "signUp_hash",
              "signUp_create", "signUp_destroy", "signIn_compare",
              "refresh_remove", "refresh_findUser"}}

\* Requests that may still create an account.
Creating == {q \in Procs : pc[q] \in {"signUp_findCode", "signUp_hash",
               "signUp_create"}}

MayIssue == Cardinality(issued) + Cardinality(Issuing) < MaxSerial

MayCreate == Len(users) + Cardinality(Creating) < MaxUsers

\* The stores, the clock and the history as a request finds them.
World == [users |-> users, regCodes |-> regCodes, sessions |-> sessions,
          outbox |-> outbox, now |-> now, expired |-> expired,
          pendingConfirm |-> pendingConfirm, consumed |-> consumed,
          lastIssue |-> lastIssue, verified |-> verified,
          revoked |-> revoked, carried |-> carried,
          loggedOut |-> loggedOut]

NoWorld == [users |-> <<>>, regCodes |-> {}, sessions |-> {}, outbox |-> {},
            now |-> 0, expired |-> {}, pendingConfirm |-> <<>>,
            consumed |-> {},
            lastIssue |-> <<>>, verified |-> {}, revoked |-> {},
            carried |-> {}, loggedOut |-> {}]

\* A call starts: remember the method and its arguments.
Call(p, call) ==
    /\ Idle(p)
    /\ args' = [args EXCEPT ![p] = call]

\* A call returns or throws.
Finish(p, result) ==
    /\ pc' = [pc EXCEPT ![p] = "done"]
    /\ rv' = [rv EXCEPT ![p] = result]

\* The call suspends on its next await.
Goto(p, next) ==
    /\ pc' = [pc EXCEPT ![p] = next]
    /\ UNCHANGED rv

Fail(kind) == [outcome |-> kind]

\* The caller takes the result; the request slot is free again.
Return(p) ==
    /\ pc[p] = "done"
    /\ pc' = [pc EXCEPT ![p] = "idle"]
    /\ args' = [args EXCEPT ![p] = NoCall]
    /\ loc' = [loc EXCEPT ![p] = NoLocals]
    /\ rv' = [rv EXCEPT ![p] = NoResult]
    /\ atCall' = [atCall EXCEPT ![p] = NoWorld]
    /\ UNCHANGED <<stores, now, fallsBack, issued, expired, history>>

(* ------------------------------- signUp -------------------------------- *)

\* signUp_findCode with `if (!codeData)` only: an unconfirmed code is accepted.
signUp_findCode_anyCode(p) ==
    /\ pc[p] = "signUp_findCode"
    /\ IF ~HasCode(args[p].email)
       THEN Finish(p, Fail("RegistrationNotConfirmed"))
       ELSE Goto(p, "signUp_hash")
    /\ UNCHANGED <<stores, now, fallsBack, issued, expired, history, args, loc, atCall>>

\* signUp(email, password), up to `await UserModel.findOne` and the
\* `if (candidate)` that follows it.
signUp(p, email, password) ==
    /\ MayIssue /\ MayCreate
    /\ Call(p, [op |-> "signUp", email |-> email, password |-> password])
    /\ IF FindUserByEmail(email) # 0
       THEN Finish(p, Fail("AlreadyRegistered"))
       ELSE Goto(p, "signUp_findCode")
    /\ UNCHANGED <<stores, now, fallsBack, issued, expired, history, loc>>

\* `await RegistrationCodeModel.findOne` and `if (!codeData || !codeData.isConfirmed)`.
signUp_findCode(p) ==
    /\ pc[p] = "signUp_findCode"
    /\ IF ~HasCode(args[p].email) \/ ~CodeOf(args[p].email).isConfirmed
       THEN Finish(p, Fail("RegistrationNotConfirmed"))
       ELSE Goto(p, "signUp_hash")
    /\ UNCHANGED <<stores, now, fallsBack, issued, expired, history, args, loc, atCall>>

\* `await bcrypt.hash(password, 7)`.
signUp_hash(p) ==
    /\ pc[p] = "signUp_hash"
    /\ loc' = [loc EXCEPT ![p].hash = BcryptHash(args[p].password)]
    /\ Goto(p, "signUp_create")
    /\ UNCHANGED <<stores, now, fallsBack, issued, expired, history, args, atCall>>

\* `await UserModel.create({ email, password: hashPassword, ... })`.
signUp_create(p) ==
    /\ pc[p] = "signUp_create"
    /\ users' = Append(users, [email |-> args[p].email,
                               password |-> loc[p].hash,
                               displayName |-> "",
                               isActivated |-> TRUE])
    /\ loc' = [loc EXCEPT ![p].id = Len(users) + 1]
    /\ Goto(p, "signUp_destroy")
    /\ UNCHANGED <<regCodes, sessions, outbox, pendingConfirm, now, fallsBack, issued,
                   expired, history, args, atCall>>

\* `await RegistrationCodeModel.destroy({ where: { email } })`, then
\* UserDto.fromModel(user) and TokenService.generateTokens.
signUp_destroy(p) ==
    /\ pc[p] = "signUp_destroy"
    /\ regCodes' = DestroyCode(regCodes, args[p].email)
    /\ verified' = verified \ {args[p].email}
    /\ revoked' = revoked \ {args[p].email}
    /\ LET token == GenerateTokens(loc[p].id) IN
        /\ issued' = issued \cup {token}
        /\ loc' = [loc EXCEPT ![p].token = token]
    /\ Goto(p, "signUp_save")
    /\ UNCHANGED <<users, sessions, outbox, pendingConfirm, now, fallsBack, expired,
                   consumed, lastIssue, carried, loggedOut, args, atCall>>

\* `await TokenService.saveRefreshToken(userDto.id, tokens.refreshToken)`
\* and the return.  The returned user is the record that create returned.
signUp_save(p) ==
    /\ pc[p] = "signUp_save"
    /\ sessions' = SaveRefreshToken(sessions, loc[p].id, loc[p].token)
    /\ Finish(p, [outcome |-> "ok", refreshToken |-> loc[p].token,
                  id |-> loc[p].id, email |-> args[p].email])
    /\ UNCHANGED <<users, regCodes, outbox, pendingConfirm, now, fallsBack, issued,
                   expired, history, args, loc, atCall>>

(* ------------------------------- signIn -------------------------------- *)

\* signIn(email, password), up to `await UserModel.findOne` and `if (!user)`.
\* The record that was loaded is what the rest of the call works with.
signIn(p, email, password) ==
    /\ MayIssue
    /\ Call(p, [op |-> "signIn", email |-> email, password |-> password])
    /\ LET id == FindUserByEmail(email) IN
        IF id = 0
        THEN Finish(p, Fail("NotFound")) /\ UNCHANGED loc
        ELSE /\ Goto(p, "signIn_compare")
             /\ loc' = [loc EXCEPT ![p].id = id,
                                   ![p].email = users[id].email,
                                   ![p].password = users[id].password]
    /\ UNCHANGED <<stores, now, fallsBack, issued, expired, history>>

\* signIn_compare without `if (!isPassEquals)`.
signIn_compare_noCheck(p) ==
    /\ pc[p] = "signIn_compare"
    /\ LET token == GenerateTokens(loc[p].id) IN
        /\ issued' = issued \cup {token}
        /\ loc' = [loc EXCEPT ![p].token = token]
    /\ Goto(p, "signIn_save")
    /\ UNCHANGED <<stores, now, fallsBack, expired, history, args, atCall>>

\* `await bcrypt.compare(password, user.password)` and `if (!isPassEquals)`,
\* then UserDto.fromModel(user) and TokenService.generateTokens.
signIn_compare(p) ==
    /\ pc[p] = "signIn_compare"
    /\ IF ~BcryptCompare(args[p].password, loc[p].password)
       THEN /\ Finish(p, Fail("InvalidCredentials"))
            /\ UNCHANGED <<issued, loc>>
       ELSE LET token == GenerateTokens(loc[p].id) IN
            /\ issued' = issued \cup {token}
            /\ loc' = [loc EXCEPT ![p].token = token]
            /\ Goto(p, "signIn_save")
    /\ UNCHANGED <<stores, now, fallsBack, expired, history, args, atCall>>

\* `await TokenService.saveRefreshToken(userDto.id, tokens.refreshToken)`
\* and the return.
signIn_save(p) ==
    /\ pc[p] = "signIn_save"
    /\ sessions' = SaveRefreshToken(sessions, loc[p].id, loc[p].token)
    /\ Finish(p, [outcome |-> "ok", refreshToken |-> loc[p].token,
                  id |-> loc[p].id, email |-> loc[p].email])
    /\ UNCHANGED <<users, regCodes, outbox, pendingConfirm, now, fallsBack, issued,
                   expired, history, args, loc, atCall>>

(* ------------------------------- logout -------------------------------- *)

\* logout that ends the session of the account the token names, whatever
\* value is stored for it.
logout_byAccount(p, token) ==
    /\ Call(p, [op |-> "logout", refreshToken |-> token])
    /\ sessions' = {s \in sessions : s.user # token.uid}
    /\ Finish(p, [outcome |-> "ok"])
    /\ UNCHANGED <<users, regCodes, outbox, pendingConfirm, now, fallsBack, issued,
                   expired, consumed, lastIssue, verified, revoked, carried, loc>>

\* logout that returns without removing anything.
logout_noRemove(p, token) ==
    /\ Call(p, [op |-> "logout", refreshToken |-> token])
    /\ Finish(p, [outcome |-> "ok"])
    /\ UNCHANGED <<stores, now, fallsBack, issued, expired, consumed, lastIssue,
                   verified, revoked, carried, loc>>

\* logout(refreshToken): `await TokenService.removeRefreshToken`.
logout(p, token) ==
    /\ Call(p, [op |-> "logout", refreshToken |-> token])
    /\ sessions' = RemoveRefreshToken(sessions, token)
    /\ Finish(p, [outcome |-> "ok"])
    /\ UNCHANGED <<users, regCodes, outbox, pendingConfirm, now, fallsBack, issued,
                   expired, consumed, lastIssue, verified, revoked, carried, loc>>

(* ------------------------------- refresh ------------------------------- *)

\* refresh without `if (!tokenFromDB)`: only the empty value is rejected.
refresh_noStoreCheck(p, token) ==
    /\ MayIssue
    /\ Call(p, [op |-> "refresh", refreshToken |-> token])
    /\ IF token = EmptyToken
       THEN Finish(p, Fail("Unauthorized"))
       ELSE Goto(p, "refresh_remove")
    /\ UNCHANGED <<stores, now, fallsBack, issued, expired, history, loc>>

\* refresh_remove without the removeRefreshToken call.
refresh_remove_keep(p) ==
    /\ pc[p] = "refresh_remove"
    /\ LET id == ValidateRefreshToken(args[p].refreshToken) IN
        IF id = 0
        THEN Finish(p, Fail("Unauthorized")) /\ UNCHANGED loc
        ELSE Goto(p, "refresh_findUser") /\ loc' = [loc EXCEPT ![p].id = id]
    /\ UNCHANGED <<stores, now, fallsBack, issued, expired, history, args, atCall>>

\* refresh_save storing and returning the presented token instead of
\* tokens.refreshToken.
refresh_save_sameToken(p) ==
    /\ pc[p] = "refresh_save"
    /\ sessions' = SaveRefreshToken(sessions, loc[p].id, args[p].refreshToken)
    /\ Finish(p, [outcome |-> "ok", refreshToken |-> args[p].refreshToken,
                  id |-> loc[p].id, email |-> loc[p].email])
    /\ consumed' = consumed \cup {args[p].refreshToken}
    /\ UNCHANGED <<users, regCodes, outbox, pendingConfirm, now, fallsBack, issued,
                   expired, lastIssue, verified, revoked, carried, loggedOut,
                   args, loc, atCall>>

\* refresh(refreshToken): `if (!refreshToken)`, then `await
\* TokenService.findRefreshToken` and `if (!tokenFromDB)`.
refresh(p, token) ==
    /\ MayIssue
    /\ Call(p, [op |-> "refresh", refreshToken |-> token])
    /\ IF token = EmptyToken \/ ~FindRefreshToken(token)
       THEN Finish(p, Fail("Unauthorized"))
       ELSE Goto(p, "refresh_remove")
    /\ UNCHANGED <<stores, now, fallsBack, issued, expired, history, loc>>

\* refresh_remove that validates first and removes the record only of a
\* token that validates.
refresh_remove_validateFirst(p) ==
    /\ pc[p] = "refresh_remove"
    /\ LET id == ValidateRefreshToken(args[p].refreshToken) IN
        IF id = 0
        THEN /\ Finish(p, Fail("Unauthorized"))
             /\ UNCHANGED <<sessions, loc>>
        ELSE /\ sessions' = RemoveRefreshToken(sessions, args[p].refreshToken)
             /\ Goto(p, "refresh_findUser")
             /\ loc' = [loc EXCEPT ![p].id = id]
    /\ UNCHANGED <<users, regCodes, outbox, pendingConfirm, now, fallsBack, issued,
                   expired, history, args, atCall>>

\* `await TokenService.removeRefreshToken`, then validateRefreshToken and
\* `if (!userData)`.
refresh_remove(p) ==
    /\ pc[p] = "refresh_remove"
    /\ sessions' = RemoveRefreshToken(sessions, args[p].refreshToken)
    /\ LET id == ValidateRefreshToken(args[p].refreshToken) IN
        IF id = 0
        THEN Finish(p, Fail("Unauthorized")) /\ UNCHANGED loc
        ELSE Goto(p, "refresh_findUser") /\ loc' = [loc EXCEPT ![p].id = id]
    /\ UNCHANGED <<users, regCodes, outbox, pendingConfirm, now, fallsBack, issued,
                   expired, history, args, atCall>>

\* `await UserModel.findOne({ where: { id: userData.id } })`, then
\* UserDto.fromModel(user), which throws a TypeError on a null user, and
\* TokenService.generateTokens.
refresh_findUser(p) ==
    /\ pc[p] = "refresh_findUser"
    /\ IF FindUserByPk(loc[p].id) = 0
       THEN /\ Finish(p, Fail("TypeError"))
            /\ UNCHANGED <<issued, loc>>
       ELSE LET token == GenerateTokens(loc[p].id) IN
            /\ issued' = issued \cup {token}
            /\ loc' = [loc EXCEPT ![p].email = users[loc[p].id].email,
                                  ![p].token = token]
            /\ Goto(p, "refresh_save")
    /\ UNCHANGED <<stores, now, fallsBack, expired, history, args, atCall>>

\* `await TokenService.saveRefreshToken(userDto.id, tokens.refreshToken)`
\* and the return.
refresh_save(p) ==
    /\ pc[p] = "refresh_save"
    /\ sessions' = SaveRefreshToken(sessions, loc[p].id, loc[p].token)
    /\ Finish(p, [outcome |-> "ok", refreshToken |-> loc[p].token,
                  id |-> loc[p].id, email |-> loc[p].email])
    /\ consumed' = consumed \cup {args[p].refreshToken}
    /\ UNCHANGED <<users, regCodes, outbox, pendingConfirm, now, fallsBack, issued,
                   expired, lastIssue, verified, revoked, carried, loggedOut,
                   args, loc, atCall>>

\* A stored refresh token outlives its signed lifetime, whether or not a
\* request is in flight.
ExpireToken(token) ==
    /\ token \in issued \ expired
    /\ FindRefreshToken(token)
    /\ expired' = expired \cup {token}
    /\ UNCHANGED <<stores, now, fallsBack, issued, history, pc, args, loc, rv, atCall>>

(* ------------------------ sendRegistrationCode ------------------------- *)

\* sendRegistrationCode(email), up to `await UserModel.findOne` and the
\* `if (candidate)` that follows it.
sendRegistrationCode(p, email) ==
    /\ Call(p, [op |-> "sendRegistrationCode", email |-> email])
    /\ IF FindUserByEmail(email) # 0
       THEN Finish(p, Fail("AlreadyRegistered"))
       ELSE Goto(p, "send_findCode")
    /\ UNCHANGED <<stores, now, fallsBack, issued, expired, history, loc>>

\* The remaining seconds as the handler computes them.
SecondsLeft(expiresIn, currentDate) ==
    GetSeconds(expiresIn) - GetSeconds(currentDate)

\* send_findCode without the cooldown check.
send_findCode_noCooldown(p) ==
    /\ pc[p] = "send_findCode"
    /\ \E code \in Codes :
          loc' = [loc EXCEPT ![p].currentDate = now,
                             ![p].otp = code,
                             ![p].expiresIn = AddMinute(now)]
    /\ Goto(p, "send_upsert")
    /\ UNCHANGED <<stores, now, fallsBack, issued, expired, history, args, atCall>>

\* `await RegistrationCodeModel.findOne`, `const currentDate = new Date()`,
\* the cooldown check, then generateCode() and the expiry date of the new
\* code, which is taken from the clock in the same synchronous run and
\* moved one minute of local time ahead.
send_findCode(p) ==
    /\ pc[p] = "send_findCode"
    /\ LET email == args[p].email IN
        IF HasCode(email) /\ CodeOf(email).expiresIn > now
        THEN /\ Finish(p, [outcome |-> "CooldownActive",
                           secondsLeft |-> SecondsLeft(CodeOf(email).expiresIn, now)])
             /\ loc' = [loc EXCEPT ![p].currentDate = now]
        ELSE /\ \E code \in Codes :
                  loc' = [loc EXCEPT ![p].currentDate = now,
                                     ![p].otp = code,
                                     ![p].expiresIn = AddMinute(now)]
             /\ Goto(p, "send_upsert")
    /\ UNCHANGED <<stores, now, fallsBack, issued, expired, history, args, atCall>>

\* `await RegistrationCodeModel.upsert({ email, otp, expiresIn, isConfirmed: false })`.
send_upsert(p) ==
    /\ pc[p] = "send_upsert"
    /\ regCodes' = UpsertCode(regCodes, [email |-> args[p].email,
                                         otp |-> loc[p].otp,
                                         expiresIn |-> loc[p].expiresIn,
                                         isConfirmed |-> FALSE])
    /\ lastIssue' = [lastIssue EXCEPT ![args[p].email] = loc[p].currentDate]
    /\ verified' = verified \ {args[p].email}
    /\ revoked' = IF HasCode(args[p].email) /\ CodeOf(args[p].email).isConfirmed
                  THEN revoked \cup {args[p].email}
                  ELSE revoked
    /\ Goto(p, "send_mail")
    /\ UNCHANGED <<users, sessions, outbox, pendingConfirm, now, fallsBack, issued,
                   expired, consumed, carried, loggedOut, args, loc, atCall>>

\* `await MailService.sendRegistrationCode(email, code)` and the return.
send_mail(p) ==
    /\ pc[p] = "send_mail"
    /\ outbox' = outbox \cup {<<args[p].email, loc[p].otp>>}
    /\ Finish(p, [outcome |-> "ok", otp |-> loc[p].otp,
                  expiresIn |-> loc[p].expiresIn])
    /\ UNCHANGED <<users, regCodes, sessions, pendingConfirm, now, fallsBack, issued,
                   expired, history, args, loc, atCall>>

(* ----------------------- verifyRegistrationCode ------------------------ *)

\* Cap on the confirmation writes in flight for one email: a call that
\* would start one more is not made.
MayConfirm(email, code) ==
    (HasCodeWithOtp(email, code) /\ ~(CodeOf(email).expiresIn < now))
        => pendingConfirm[email] < MaxPending

\* verifyRegistrationCode without the expiry check.
verifyRegistrationCode_noExpiry(p, email, code) ==
    /\ HasCodeWithOtp(email, code) => pendingConfirm[email] < MaxPending
    /\ Call(p, [op |-> "verifyRegistrationCode", email |-> email, code |-> code])
    /\ IF ~HasCodeWithOtp(email, code)
       THEN /\ Finish(p, [outcome |-> "InvalidCode", isExpired |-> FALSE])
            /\ UNCHANGED <<pendingConfirm, verified, revoked>>
       ELSE /\ Finish(p, [outcome |-> "ok"])
            /\ pendingConfirm' = [pendingConfirm EXCEPT ![email] = @ + 1]
            /\ verified' = verified \cup {email}
            /\ revoked' = revoked \ {email}
    /\ UNCHANGED <<users, regCodes, sessions, outbox, now, fallsBack, issued, expired,
                   consumed, lastIssue, carried, loggedOut, loc>>

\* verifyRegistrationCode(email, code): `await findOne({ where: { email, otp } })`,
\* the two checks, and `codeData.update({ isConfirmed: true })`, which is
\* started and not awaited: the call returns while the write is in flight,
\* one write for every accepted call.
verifyRegistrationCode(p, email, code) ==
    /\ MayConfirm(email, code)
    /\ Call(p, [op |-> "verifyRegistrationCode", email |-> email, code |-> code])
    /\ IF ~HasCodeWithOtp(email, code)
       THEN /\ Finish(p, [outcome |-> "InvalidCode", isExpired |-> FALSE])
            /\ UNCHANGED <<pendingConfirm, verified, revoked>>
       ELSE IF CodeOf(email).expiresIn < now
       THEN /\ Finish(p, [outcome |-> "ExpiredCode", isExpired |-> TRUE])
            /\ UNCHANGED <<pendingConfirm, verified, revoked>>
       ELSE /\ Finish(p, [outcome |-> "ok"])
            /\ pendingConfirm' = [pendingConfirm EXCEPT ![email] = @ + 1]
            /\ verified' = verified \cup {email}
            /\ revoked' = revoked \ {email}
    /\ UNCHANGED <<users, regCodes, sessions, outbox, now, fallsBack, issued, expired,
                   consumed, lastIssue, carried, loggedOut, loc>>

\* One of the writes started by `codeData.update({ isConfirmed: true })`
\* reaches the store: the row of that email, if it is still there, becomes
\* confirmed.
confirmWrite(email) ==
    /\ pendingConfirm[email] > 0
    /\ pendingConfirm' = [pendingConfirm EXCEPT ![email] = @ - 1]
    /\ regCodes' = {IF r.email = email THEN [r EXCEPT !.isConfirmed = TRUE] ELSE r
                    : r \in regCodes}
    /\ UNCHANGED <<users, sessions, outbox, now, fallsBack, issued, expired, history,
                   pc, args, loc, rv, atCall>>

(* -------------------------- updateProfileData -------------------------- *)

\* The refresh tokens stored for an account.
TokensOf(uid) == {s.refreshToken : s \in {r \in sessions : r.user = uid}}

\* updateProfileData(fields, userId), up to `await UserModel.findByPk`.
\* `user.update` on a null user throws a TypeError.
updateProfileData(p, email, displayName, userId) ==
    /\ Call(p, [op |-> "updateProfileData", email |-> email,
                displayName |-> displayName, userId |-> userId])
    /\ IF FindUserByPk(userId) = 0
       THEN Finish(p, Fail("TypeError"))
       ELSE Goto(p, "profile_update")
    /\ UNCHANGED <<stores, now, fallsBack, issued, expired, history, loc>>

\* `await user.update({ email, displayName, ... })` and the return.  The
\* displayName stands for the profile fields and notification flags, which
\* are all written the same way.
profile_update(p) ==
    /\ pc[p] = "profile_update"
    /\ users' = [users EXCEPT ![args[p].userId].email = args[p].email,
                              ![args[p].userId].displayName = args[p].displayName]
    /\ carried' = carried \cup TokensOf(args[p].userId)
    /\ Finish(p, [outcome |-> "ok"])
    /\ UNCHANGED <<regCodes, sessions, outbox, pendingConfirm, now, fallsBack, issued,
                   expired, consumed, lastIssue, verified, revoked, loggedOut,
                   args, loc, atCall>>

(* ------------------------ updateProfilePassword ------------------------ *)

\* updateProfilePassword(passwords, userId): the confirmation check and
\* `await UserModel.findByPk`; `user.password` of a null user throws a
\* TypeError.  The loaded record is what both comparisons work with.
updateProfilePassword(p, oldPassword, newPassword, confirmNewPassword, userId) ==
    /\ Call(p, [op |-> "updateProfilePassword", oldPassword |-> oldPassword,
                newPassword |-> newPassword,
                confirmNewPassword |-> confirmNewPassword, userId |-> userId])
    /\ IF newPassword # confirmNewPassword
       THEN Finish(p, Fail("Mismatch")) /\ UNCHANGED loc
       ELSE IF FindUserByPk(userId) = 0
       THEN Finish(p, Fail("TypeError")) /\ UNCHANGED loc
       ELSE /\ Goto(p, "password_compareOld")
            /\ loc' = [loc EXCEPT ![p].password = users[userId].password]
    /\ UNCHANGED <<stores, now, fallsBack, issued, expired, history>>

\* `await bcrypt.compare(oldPassword, user.password)` and `if (!isPassEquals)`.
password_compareOld(p) ==
    /\ pc[p] = "password_compareOld"
    /\ IF ~BcryptCompare(args[p].oldPassword, loc[p].password)
       THEN Finish(p, Fail("InvalidCredentials"))
       ELSE Goto(p, "password_compareNew")
    /\ UNCHANGED <<stores, now, fallsBack, issued, expired, history, args, loc, atCall>>

\* password_compareNew without `if (isNewPassEquals)`.
password_compareNew_noCheck(p) ==
    /\ pc[p] = "password_compareNew"
    /\ Goto(p, "password_hash")
    /\ UNCHANGED <<stores, now, fallsBack, issued, expired, history, args, loc, atCall>>

\* `await bcrypt.compare(newPassword, user.password)` and `if (isNewPassEquals)`.
password_compareNew(p) ==
    /\ pc[p] = "password_compareNew"
    /\ IF BcryptCompare(args[p].newPassword, loc[p].password)
       THEN Finish(p, Fail("NoOpChange"))
       ELSE Goto(p, "password_hash")
    /\ UNCHANGED <<stores, now, fallsBack, issued, expired, history, args, loc, atCall>>

\* `await bcrypt.hash(newPassword, 7)`.
password_hash(p) ==
    /\ pc[p] = "password_hash"
    /\ loc' = [loc EXCEPT ![p].hash = BcryptHash(args[p].newPassword)]
    /\ Goto(p, "password_update")
    /\ UNCHANGED <<stores, now, fallsBack, issued, expired, history, args, atCall>>

\* password_update that also ends the sessions of the account.
password_update_revoke(p) ==
    /\ pc[p] = "password_update"
    /\ users' = [users EXCEPT ![args[p].userId].password = loc[p].hash]
    /\ sessions' = {s \in sessions : s.user # args[p].userId}
    /\ carried' = carried \cup TokensOf(args[p].userId)
    /\ Finish(p, [outcome |-> "ok"])
    /\ UNCHANGED <<regCodes, outbox, pendingConfirm, now, fallsBack, issued, expired,
                   consumed, lastIssue, verified, revoked, loggedOut, args,
                   loc, atCall>>

\* `await user.update({ password: hashNewPassword })` and the return.
password_update(p) ==
    /\ pc[p] = "password_update"
    /\ users' = [users EXCEPT ![args[p].userId].password = loc[p].hash]
    /\ carried' = carried \cup TokensOf(args[p].userId)
    /\ Finish(p, [outcome |-> "ok"])
    /\ UNCHANGED <<regCodes, sessions, outbox, pendingConfirm, now, fallsBack, issued,
                   expired, consumed, lastIssue, verified, revoked, loggedOut,
                   args, loc, atCall>>

(* -------------------------------- clock -------------------------------- *)

\* Time passes, whether or not a request is in flight.
Tick ==
    /\ now + TickStep <= MaxTime
    /\ now' = now + TickStep
    /\ UNCHANGED <<fallsBack, stores, issued, expired, history, pc, args, loc, rv, atCall>>

(* ---------------------------- specifications --------------------------- *)

Account(email, password) ==
    [email |-> email, password |-> BcryptHash(password), displayName |-> "",
     isActivated |-> TRUE]

\* One account exists, and the other email either has no registration code
\* or one that was issued and confirmed at time 0.  The server runs in a
\* time zone without a change of local time, or in one with it.
Init ==
    /\ fallsBack \in BOOLEAN
    /\ users = <<Account("a@x.com", "pw1")>>
    /\ regCodes \in {{}, {[email |-> "b@x.com", otp |-> "1111",
                           expiresIn |-> AddMinute(0), isConfirmed |-> TRUE]}}
    /\ sessions = {}
    /\ outbox = {<<r.email, r.otp>> : r \in regCodes}
    /\ now = 0
    /\ issued = {}
    /\ expired = {}
    /\ pendingConfirm = [e \in Emails |-> 0]
    /\ consumed = {}
    /\ lastIssue = [e \in Emails |-> IF HasCode(e) THEN 0 ELSE -1]
    /\ verified = {r.email : r \in regCodes}
    /\ revoked = {}
    /\ carried = {}
    /\ loggedOut = {}
    /\ pc = [p \in Procs |-> "idle"]
    /\ args = [p \in Procs |-> NoCall]
    /\ loc = [p \in Procs |-> NoLocals]
    /\ rv = [p \in Procs |-> NoResult]
    /\ atCall = [p \in Procs |-> NoWorld]

\* Tokens that a request has generated and not yet returned.
Unreturned ==
    {loc[q].token : q \in {r \in Procs : pc[r] \in {"signUp_save",
                                                    "signIn_save",
                                                    "refresh_save"}}}

\* What a caller can present: a token some call has returned, no token, or
\* a value the signer never issued.
TokenValues == (issued \ Unreturned) \cup {EmptyToken, ForgedToken}

UserIds == 1..MaxUsers

\* No request is in flight.  A write that verifyRegistrationCode started
\* and did not await may still be.
Quiescent == \A q \in Procs : Idle(q)

\* Interleaved use: a request may start whenever its slot is free.
Interleaved == UNCHANGED <<atCall, loggedOut>>

\* What an observer of one-at-a-time requests writes down when p's call
\* starts: the world it starts in, and the tokens a logout removes (logout
\* has a single await, so its removal happens in the step that starts it).
Observe(p) ==
    /\ atCall' = [atCall EXCEPT ![p] = World]
    /\ loggedOut' = IF args'[p].op = "logout"
                    THEN loggedOut \cup
                         {s.refreshToken : s \in sessions \ sessions'}
                    ELSE loggedOut

\* Sequential use: the caller waits for each call to return before it
\* makes the next one.
Sequential(p) == Quiescent /\ Observe(p)

SessionStep(p) ==
    \/ signUp_findCode(p)
    \/ signUp_hash(p)
    \/ signUp_create(p)
    \/ signUp_destroy(p)
    \/ signUp_save(p)
    \/ signIn_compare(p)
    \/ signIn_save(p)
    \/ refresh_remove(p)
    \/ refresh_findUser(p)
    \/ refresh_save(p)
    \/ Return(p)

SessionNext ==
    \/ \E p \in Procs, e \in Emails, pw \in Passwords :
          signUp(p, e, pw) /\ Interleaved
    \/ \E p \in Procs, e \in Emails, pw \in Passwords :
          signIn(p, e, pw) /\ Interleaved
    \/ \E p \in Procs, t \in TokenValues : logout(p, t) /\ Interleaved
    \/ \E p \in Procs, t \in TokenValues : refresh(p, t) /\ Interleaved
    \/ \E p \in Procs : SessionStep(p)
    \/ \E t \in issued : ExpireToken(t)

\* The same with every token within its signed lifetime.
RotationNext ==
    \/ \E p \in Procs, e \in Emails, pw \in Passwords :
          signUp(p, e, pw) /\ Interleaved
    \/ \E p \in Procs, e \in Emails, pw \in Passwords :
          signIn(p, e, pw) /\ Interleaved
    \/ \E p \in Procs, t \in TokenValues : logout(p, t) /\ Interleaved
    \/ \E p \in Procs, t \in TokenValues : refresh(p, t) /\ Interleaved
    \/ \E p \in Procs : SessionStep(p)

SessionNextSeq ==
    \/ \E p \in Procs, e \in Emails, pw \in Passwords :
          signUp(p, e, pw) /\ Sequential(p)
    \/ \E p \in Procs, e \in Emails, pw \in Passwords :
          signIn(p, e, pw) /\ Sequential(p)
    \/ \E p \in Procs, t \in TokenValues : logout(p, t) /\ Sequential(p)
    \/ \E p \in Procs, t \in TokenValues : refresh(p, t) /\ Sequential(p)
    \/ \E p \in Procs : SessionStep(p)
    \/ \E t \in issued : ExpireToken(t)

\* Session operations, requests interleaved at their awaits.
SessionSpec == Init /\ [][SessionNext]_vars

\* Session operations, requests interleaved at their awaits, while no token
\* outlives its lifetime.
RotationSpec == Init /\ [][RotationNext]_vars

\* Session operations, one request at a time.
SessionSeq == Init /\ [][SessionNextSeq]_vars

RegStep(p) ==
    \/ send_findCode(p)
    \/ send_upsert(p)
    \/ send_mail(p)
    \/ signUp_findCode(p)
    \/ signUp_hash(p)
    \/ signUp_create(p)
    \/ signUp_destroy(p)
    \/ signUp_save(p)
    \/ Return(p)

RegNext ==
    \/ \E p \in Procs, e \in Emails : sendRegistrationCode(p, e) /\ Interleaved
    \/ \E p \in Procs, e \in Emails, c \in Codes :
          verifyRegistrationCode(p, e, c) /\ Interleaved
    \/ \E p \in Procs, e \in Emails, pw \in Passwords :
          signUp(p, e, pw) /\ Interleaved
    \/ \E p \in Procs : RegStep(p)
    \/ \E e \in Emails : confirmWrite(e)
    \/ Tick

RegNextSeq ==
    \/ \E p \in Procs, e \in Emails : sendRegistrationCode(p, e) /\ Sequential(p)
    \/ \E p \in Procs, e \in Emails, c \in Codes :
          verifyRegistrationCode(p, e, c) /\ Sequential(p)
    \/ \E p \in Procs, e \in Emails, pw \in Passwords :
          signUp(p, e, pw) /\ Sequential(p)
    \/ \E p \in Procs : RegStep(p)
    \/ \E e \in Emails : confirmWrite(e)
    \/ Tick

\* Registration gate and signUp, requests interleaved at their awaits.
RegSpec == Init /\ [][RegNext]_vars

\* Registration gate and signUp, one request at a time; the clock and the
\* un-awaited confirmation writes do not wait for the caller.
RegSeq == Init /\ [][RegNextSeq]_vars

ProfileStep(p) ==
    \/ profile_update(p)
    \/ password_compareOld(p)
    \/ password_compareNew(p)
    \/ password_hash(p)
    \/ password_update(p)
    \/ signUp_findCode(p)
    \/ signUp_hash(p)
    \/ signUp_create(p)
    \/ signUp_destroy(p)
    \/ signUp_save(p)
    \/ Return(p)

ProfileNext ==
    \/ \E p \in Procs, e \in Emails, n \in Names, u \in UserIds :
          updateProfileData(p, e, n, u) /\ Interleaved
    \/ \E p \in Procs, o \in Passwords, n \in Passwords, c \in Passwords,
          u \in UserIds :
          updateProfilePassword(p, o, n, c, u) /\ Interleaved
    \/ \E p \in Procs, e \in Emails, pw \in Passwords :
          signUp(p, e, pw) /\ Interleaved
    \/ \E p \in Procs : ProfileStep(p)

ProfileNextSeq ==
    \/ \E p \in Procs, e \in Emails, n \in Names, u \in UserIds :
          updateProfileData(p, e, n, u) /\ Sequential(p)
    \/ \E p \in Procs, o \in Passwords, n \in Passwords, c \in Passwords,
          u \in UserIds :
          updateProfilePassword(p, o, n, c, u) /\ Sequential(p)
    \/ \E p \in Procs, e \in Emails, pw \in Passwords :
          signUp(p, e, pw) /\ Sequential(p)
    \/ \E p \in Procs : ProfileStep(p)

\* Sessions and profile maintenance together: an account with a stored
\* refresh token changes its profile data or its password.
AccountStep(p) ==
    \/ signIn_compare(p)
    \/ signIn_save(p)
    \/ refresh_remove(p)
    \/ refresh_findUser(p)
    \/ refresh_save(p)
    \/ profile_update(p)
    \/ password_compareOld(p)
    \/ password_compareNew(p)
    \/ password_hash(p)
    \/ password_update(p)
    \/ Return(p)

AccountNextSeq ==
    \/ \E p \in Procs, e \in Emails, pw \in Passwords :
          signIn(p, e, pw) /\ Sequential(p)
    \/ \E p \in Procs, t \in TokenValues : refresh(p, t) /\ Sequential(p)
    \/ \E p \in Procs, e \in Emails, n \in Names, u \in UserIds :
          updateProfileData(p, e, n, u) /\ Sequential(p)
    \/ \E p \in Procs, o \in Passwords, n \in Passwords, c \in Passwords,
          u \in UserIds :
          updateProfilePassword(p, o, n, c, u) /\ Sequential(p)
    \/ \E p \in Procs : AccountStep(p)

\* Sessions and profile maintenance, one request at a time.
AccountSeq == Init /\ [][AccountNextSeq]_vars

\* Profile maintenance and signUp, requests interleaved at their awaits.
ProfileSpec == Init /\ [][ProfileNext]_vars

\* Profile maintenance and signUp, one request at a time.
ProfileSeq == Init /\ [][ProfileNextSeq]_vars

(* -------------------------------- claims ------------------------------- *)

Done(p, op) == pc[p] = "done" /\ args[p].op = op

StoredIn(sess, token) == \E s \in sess : s.refreshToken = token

AccountIn(us, email) == \E i \in 1..Len(us) : us[i].email = email

\* C1 (SessionSeq): in sequential use, a refresh with a token that is stored
\* when the call starts and has not outlived its lifetime succeeds and
\* returns a different token, and a refresh with a token that an earlier
\* refresh succeeded with fails with Unauthorized.
C1_RefreshSingleUse ==
    \A p \in Procs : Done(p, "refresh") =>
        LET T == args[p].refreshToken
            W == atCall[p]
        IN  /\ (StoredIn(W.sessions, T) /\ T \in issued /\ T \notin expired)
                => (rv[p].outcome = "ok" /\ rv[p].refreshToken # T)
            /\ T \in W.consumed => rv[p].outcome = "Unauthorized"

\* A second refresh with an already used token has been rejected.
C1_Witness ==
    \E p \in Procs :
        /\ Done(p, "refresh")
        /\ args[p].refreshToken \in atCall[p].consumed
        /\ rv[p].outcome = "Unauthorized"

\* C2 (SessionSpec): of two refresh calls with the same token value, at most
\* one succeeds, however their steps interleave.
C2_AtMostOneRefreshSucceeds ==
    \A p, q \in Procs :
        (/\ p # q
         /\ Done(p, "refresh") /\ Done(q, "refresh")
         /\ args[p].refreshToken = args[q].refreshToken)
        => ~(rv[p].outcome = "ok" /\ rv[q].outcome = "ok")

\* The step in which p's call of op returns or throws.
Finishes(p, op) == pc[p] # "done" /\ pc'[p] = "done" /\ args'[p].op = op

\* A code record without its confirmation flag.
CodeKey(r) == [email |-> r.email, otp |-> r.otp, expiresIn |-> r.expiresIn]

\* C3 (RegSeq): signUp succeeds exactly when, at the start of the call, a
\* confirmed registration code for the email is stored and no account has
\* that email; after a success no code for the email is stored.
C3_SignUpIffConfirmed ==
    [][\A p \in Procs : Finishes(p, "signUp") =>
        LET e == args'[p].email
            W == atCall'[p]
        IN  /\ rv'[p].outcome = "ok" <=>
                  /\ \E r \in W.regCodes : r.email = e /\ r.isConfirmed
                  /\ ~AccountIn(W.users, e)
            /\ rv'[p].outcome = "ok" =>
                  ~\E r \in regCodes' : r.email = e]_vars

\* C4 (RegSeq): for an email without account for which a code was issued
\* before, a sendRegistrationCode that reads the clock less than 60 seconds
\* after that issuance fails with CooldownActive and leaves the stored
\* codes as they were, and one that reads it 60 seconds or more after it
\* succeeds; what it stores is a new code that is not confirmed.
C4_Cooldown ==
    [][\A p \in Procs :
        /\ Finishes(p, "sendRegistrationCode") =>
            LET e == args'[p].email
                W == atCall'[p]
                t == loc'[p].currentDate
            IN  (~AccountIn(W.users, e) /\ W.lastIssue[e] >= 0) =>
                   IF t - W.lastIssue[e] < 60
                   THEN /\ rv'[p].outcome = "CooldownActive"
                        /\ {CodeKey(r) : r \in regCodes'}
                             = {CodeKey(r) : r \in W.regCodes}
                   ELSE /\ rv'[p].outcome = "ok"
                        /\ lastIssue'[e] = t
                        /\ \E r \in regCodes' :
                              /\ r.email = e /\ r.otp = rv'[p].otp
                              /\ r.expiresIn = t + 60
        /\ (pc[p] = "send_upsert" /\ pc'[p] = "send_mail") =>
              \E r \in regCodes' :
                  /\ r.email = args[p].email /\ r.otp = loc[p].otp
                  /\ ~r.isConfirmed]_vars

\* A code has been issued again after the cooldown of an earlier one.
C4_Witness ==
    \E p \in Procs :
        /\ Done(p, "sendRegistrationCode")
        /\ atCall[p].lastIssue[args[p].email] >= 0
        /\ loc[p].currentDate - atCall[p].lastIssue[args[p].email] >= 60
        /\ rv[p].outcome = "ok"

\* C5 (RegSeq): a CooldownActive failure reports a positive secondsLeft, the
\* whole seconds from the clock reading of the call to the stored code's
\* expiry.
C5_SecondsLeft ==
    \A p \in Procs :
        (Done(p, "sendRegistrationCode") /\ rv[p].outcome = "CooldownActive") =>
            /\ rv[p].secondsLeft > 0
            /\ rv[p].secondsLeft
                  = CodeOf(args[p].email).expiresIn - loc[p].currentDate

\* C6 (RegSeq): verifyRegistrationCode fails with InvalidCode, isExpired
\* false, when no stored record has both the email and the code, and with
\* ExpiredCode, isExpired true, when one has but its expiry is past; neither
\* failure changes a record or starts a confirmation write.
C6_VerifyFailures ==
    [][\A p \in Procs : Finishes(p, "verifyRegistrationCode") =>
        LET W == atCall'[p]
            match == {r \in W.regCodes : r.email = args'[p].email
                                          /\ r.otp = args'[p].code}
        IN  /\ match = {} =>
                  rv'[p] = [outcome |-> "InvalidCode", isExpired |-> FALSE]
            /\ (\E r \in match : r.expiresIn < W.now) =>
                  rv'[p] = [outcome |-> "ExpiredCode", isExpired |-> TRUE]
            /\ rv'[p].outcome \in {"InvalidCode", "ExpiredCode"} =>
                  /\ regCodes' = W.regCodes
                  /\ pendingConfirm' = W.pendingConfirm]_vars

\* A matching code has been rejected as expired.
C6_Witness ==
    \E p \in Procs :
        /\ Done(p, "verifyRegistrationCode")
        /\ HasCodeWithOtp(args[p].email, args[p].code)
        /\ rv[p].outcome = "ExpiredCode"

OnePerAccount(sess) == \A s1, s2 \in sess : s1.user = s2.user => s1 = s2

\* C7 (RotationSpec): in every interleaving of signUp, signIn, refresh and
\* logout the SessionStore holds at most one record per account id, so an
\* issuance replaces the account's previous record; and a refresh called
\* with an issued token that is no longer stored fails with Unauthorized.
\* Neither part reads a token's lifetime.
C7_OneSessionPerAccount ==
    [][/\ OnePerAccount(sessions')
       /\ \A p \in Procs :
            (/\ Idle(p) /\ pc'[p] # "idle"
             /\ args'[p].op = "refresh"
             /\ args'[p].refreshToken \in issued
             /\ ~StoredIn(sessions, args'[p].refreshToken))
            => (pc'[p] = "done" /\ rv'[p].outcome = "Unauthorized")]_vars

\* A refresh with a token that still validates, was never refreshed, and
\* was replaced in the store by a newer token of its account, was rejected.
C7_Witness ==
    \E p \in Procs :
        LET T == args[p].refreshToken IN
        /\ Done(p, "refresh")
        /\ rv[p].outcome = "Unauthorized"
        /\ T \in issued \ (expired \cup consumed)
        /\ \E s \in sessions : s.user = T.uid /\ s.refreshToken # T

\* C8 as stated (SessionSeq): every refresh call, whatever its value,
\* removes exactly one stored record, and stores exactly one new record
\* exactly when it succeeds.
C8_EveryRefreshConsumesOne ==
    \A p \in Procs : Done(p, "refresh") =>
        /\ Cardinality(atCall[p].sessions \ sessions) = 1
        /\ Cardinality(sessions \ atCall[p].sessions) = 1 <=> rv[p].outcome = "ok"

\* C8 as amended (SessionSeq): in sequential use a refresh call removes
\* exactly the stored record of its value, which is one record when the
\* value is stored and none when it is empty or unknown, and it stores
\* exactly one new record exactly when it succeeds, and none otherwise.
C8_RefreshConsumesMatch ==
    \A p \in Procs : Done(p, "refresh") =>
        LET T == args[p].refreshToken
            W == atCall[p]
            removed == W.sessions \ sessions
            added == sessions \ W.sessions
        IN  /\ removed = {s \in W.sessions : s.refreshToken = T}
            /\ Cardinality(removed) = (IF StoredIn(W.sessions, T) THEN 1 ELSE 0)
            /\ Cardinality(added) = (IF rv[p].outcome = "ok" THEN 1 ELSE 0)

\* A stored token that no longer validates was presented: the call failed
\* and the record is gone.
C8_Witness ==
    \E p \in Procs :
        /\ Done(p, "refresh")
        /\ StoredIn(atCall[p].sessions, args[p].refreshToken)
        /\ args[p].refreshToken \in atCall[p].expired
        /\ rv[p].outcome = "Unauthorized"
        /\ ~StoredIn(sessions, args[p].refreshToken)

\* C9 (ProfileSeq): updateProfilePassword, for an existing account, fails
\* with Mismatch when newPassword differs from confirmNewPassword, else
\* with InvalidCredentials when oldPassword does not match the stored hash,
\* else with NoOpChange when newPassword matches the stored hash; none of
\* these failures changes any store.
C9_PasswordFailures ==
    \A p \in Procs : Done(p, "updateProfilePassword") =>
        LET a == args[p]
            W == atCall[p]
            exists == a.userId \in 1..Len(W.users)
            hash == W.users[a.userId].password
        IN  /\ a.newPassword # a.confirmNewPassword => rv[p].outcome = "Mismatch"
            /\ (/\ a.newPassword = a.confirmNewPassword /\ exists
                /\ hash # BcryptHash(a.oldPassword))
                  => rv[p].outcome = "InvalidCredentials"
            /\ (/\ a.newPassword = a.confirmNewPassword /\ exists
                /\ hash = BcryptHash(a.oldPassword)
                /\ hash = BcryptHash(a.newPassword))
                  => rv[p].outcome = "NoOpChange"
            /\ rv[p].outcome \in {"Mismatch", "InvalidCredentials", "NoOpChange"}
                  => (/\ users = W.users /\ regCodes = W.regCodes
                      /\ sessions = W.sessions /\ outbox = W.outbox)

\* A change to the password the account already has was rejected, after an
\* earlier change had replaced the stored hash.
C9_Witness ==
    \E p \in Procs :
        /\ Done(p, "updateProfilePassword")
        /\ rv[p].outcome = "NoOpChange"
        /\ atCall[p].users[args[p].userId].password = BcryptHash("pw2")

\* C10 (ProfileSeq): no two accounts have the same email.
C10_UniqueEmails ==
    \A i, j \in 1..Len(users) : users[i].email = users[j].email => i = j

\* C11 (RegSpec): of two sendRegistrationCode calls for the same email whose
\* steps interleave, at most one succeeds, so at most one code is generated
\* and mailed for the email within the 60 seconds of a code's lifetime.
C11_AtMostOneIssuance ==
    \A p, q \in Procs :
        (/\ p # q
         /\ Done(p, "sendRegistrationCode") /\ Done(q, "sendRegistrationCode")
         /\ args[p].email = args[q].email)
        => ~(rv[p].outcome = "ok" /\ rv[q].outcome = "ok")

\* C12 (SessionSeq): logout never fails; it removes the stored record of the
\* given token value and no other record, so a logout with a value that is
\* not stored, a repeated logout included, leaves the SessionStore as it is.
C12_LogoutIdempotent ==
    \A p \in Procs : Done(p, "logout") =>
        LET T == args[p].refreshToken
            W == atCall[p]
        IN  /\ rv[p].outcome = "ok"
            /\ sessions = {s \in W.sessions : s.refreshToken # T}
            /\ ~StoredIn(W.sessions, T) => sessions = W.sessions

\* A logout was repeated with the same token while another token's record
\* was stored, and the store was left alone.
C12_Witness ==
    \E p \in Procs :
        /\ Done(p, "logout")
        /\ args[p].refreshToken \in atCall[p].loggedOut
        /\ atCall[p].sessions # {}
        /\ sessions = atCall[p].sessions
        /\ rv[p].outcome = "ok"

\* C13 (RegSeq): once a verifyRegistrationCode call for an email has
\* returned success, a signUp for that email that starts afterwards, with
\* no account for it and no new code issued in between, does not fail with
\* RegistrationNotConfirmed.
C13_ConfirmedOnReturn ==
    \A p \in Procs : Done(p, "signUp") =>
        LET e == args[p].email
            W == atCall[p]
        IN  (e \in W.verified /\ ~AccountIn(W.users, e))
                => rv[p].outcome # "RegistrationNotConfirmed"

\* C18 (RegSeq): a stored code is confirmed only if, since it was last
\* issued, a verifyRegistrationCode call with its email and otp was accepted
\* before its expiry.
C18_ConfirmedOnlyByVerify ==
    \A r \in regCodes : r.isConfirmed => r.email \in verified

\* C19 (RegSeq): after a confirmed code has been replaced by a later
\* issuance, the stored code is unconfirmed and signUp for the email fails
\* with RegistrationNotConfirmed, until a verify call is accepted.
C19_ReissueRevokes ==
    /\ \A e \in revoked : HasCode(e) /\ ~CodeOf(e).isConfirmed
    /\ \A p \in Procs :
          (/\ Done(p, "signUp")
           /\ args[p].email \in atCall[p].revoked
           /\ ~AccountIn(atCall[p].users, args[p].email))
          => rv[p].outcome = "RegistrationNotConfirmed"

\* C14 (SessionSeq): a refresh with a token that is stored but no longer
\* validates fails with Unauthorized and leaves the store without that
\* record and without a replacement; a refresh with a token that no longer
\* validates fails with Unauthorized whether or not it is still stored.
C14_RemoveBeforeValidate ==
    \A p \in Procs : Done(p, "refresh") =>
        LET T == args[p].refreshToken
            W == atCall[p]
        IN  /\ (StoredIn(W.sessions, T) /\ T \in W.expired) =>
                  /\ rv[p].outcome = "Unauthorized"
                  /\ ~StoredIn(sessions, T)
                  /\ sessions = {s \in W.sessions : s.refreshToken # T}
            /\ T \in W.expired => rv[p].outcome = "Unauthorized"

\* A refresh was tried again with the one expired token, after an earlier
\* failed refresh (no logout took place) had emptied the store of it.
C14_Witness ==
    \E p \in Procs :
        /\ Done(p, "refresh")
        /\ atCall[p].expired = {args[p].refreshToken}
        /\ atCall[p].sessions = {}
        /\ atCall[p].loggedOut = {}
        /\ rv[p].outcome = "Unauthorized"

\* The id of the first account with this email in a UserStore that has one.
FirstId(us, email) ==
    CHOOSE i \in 1..Len(us) :
        /\ us[i].email = email
        /\ \A j \in 1..Len(us) : us[j].email = email => i <= j

\* C16 (SessionSeq): signIn fails with NotFound exactly when no account has
\* the email, with InvalidCredentials exactly when the account exists and
\* the password does not match its hash, and leaves the SessionStore as it
\* was in both cases; otherwise it succeeds, and the token it returns is
\* newly issued and stored against the account's id.
C16_SignIn ==
    \A p \in Procs : Done(p, "signIn") =>
        LET e == args[p].email
            W == atCall[p]
            found == AccountIn(W.users, e)
            match == BcryptCompare(args[p].password,
                                   W.users[FirstId(W.users, e)].password)
        IN  /\ rv[p].outcome = "NotFound" <=> ~found
            /\ rv[p].outcome = "InvalidCredentials" <=> (found /\ ~match)
            /\ rv[p].outcome = "ok" <=> (found /\ match)
            /\ rv[p].outcome # "ok" => sessions = W.sessions
            /\ rv[p].outcome = "ok" =>
                  /\ rv[p].refreshToken \in issued
                  /\ ~StoredIn(W.sessions, rv[p].refreshToken)
                  /\ [user |-> FirstId(W.users, e),
                      refreshToken |-> rv[p].refreshToken] \in sessions

\* A signIn with a wrong password for an existing account was rejected
\* while a session of that account was stored.
C16_Witness ==
    \E p \in Procs :
        /\ Done(p, "signIn")
        /\ rv[p].outcome = "InvalidCredentials"
        /\ AccountIn(atCall[p].users, args[p].email)
        /\ atCall[p].sessions # {}
        /\ sessions = atCall[p].sessions

\* C17 (SessionSeq): when logout(T) has completed T is not stored; a token
\* whose record a logout removed is never stored again, whatever is issued
\* later; and a refresh with it, or with any value that is not stored,
\* fails with Unauthorized.
C17_LoggedOutStaysOut ==
    /\ \A t \in loggedOut : ~StoredIn(sessions, t)
    /\ \A p \in Procs :
          /\ Done(p, "logout") => ~StoredIn(sessions, args[p].refreshToken)
          /\ (/\ Done(p, "refresh")
              /\ \/ args[p].refreshToken \in atCall[p].loggedOut
                 \/ ~StoredIn(atCall[p].sessions, args[p].refreshToken))
             => rv[p].outcome = "Unauthorized"

\* A refresh with a logged-out token that still validates was rejected,
\* after a later sign-in had stored another token.
C17_Witness ==
    \E p \in Procs :
        /\ Done(p, "refresh")
        /\ args[p].refreshToken \in atCall[p].loggedOut
        /\ args[p].refreshToken \notin atCall[p].expired
        /\ atCall[p].sessions # {}
        /\ rv[p].outcome = "Unauthorized"

\* C15 (RegSeq): a signUp for an email that an account already has at the
\* start of the call fails with AlreadyRegistered, whether a code for the
\* email is absent, unconfirmed or confirmed; a signUp for an email that has
\* no account and no confirmed code at the start of the call fails with
\* RegistrationNotConfirmed; no step of such a call changes the UserStore,
\* the RegistrationCodeStore or the SessionStore.
C15_AccountCheckedFirst ==
    [][\A p \in Procs :
        LET e == args'[p].email
            W == atCall'[p]
            untouched == UNCHANGED <<users, regCodes, sessions>>
        IN  /\ (Idle(p) /\ pc'[p] = "signUp_findCode") => untouched
            /\ Finishes(p, "signUp") =>
                  /\ AccountIn(W.users, e) =>
                        (rv'[p].outcome = "AlreadyRegistered" /\ untouched)
                  /\ (/\ ~AccountIn(W.users, e)
                      /\ ~\E r \in W.regCodes : r.email = e /\ r.isConfirmed)
                     => (rv'[p].outcome = "RegistrationNotConfirmed"
                         /\ untouched)]_vars

\* C20 (AccountSeq): updateProfileData and updateProfilePassword leave the
\* SessionStore as they found it, whatever their outcome, and a refresh
\* with a token that was stored for the account when its profile or
\* password was changed, and that is still stored and within its lifetime,
\* succeeds.
C20_ProfileKeepsSessions ==
    \A p \in Procs :
        /\ (Done(p, "updateProfileData") \/ Done(p, "updateProfilePassword"))
           => sessions = atCall[p].sessions
        /\ (/\ Done(p, "refresh")
            /\ args[p].refreshToken \in atCall[p].carried
            /\ StoredIn(atCall[p].sessions, args[p].refreshToken)
            /\ args[p].refreshToken \notin atCall[p].expired)
           => rv[p].outcome = "ok"

\* A refresh succeeded with a token that was stored when the account's
\* profile or password was changed, for an account whose password is no
\* longer the one it started with.
C20_Witness ==
    \E p \in Procs :
        /\ Done(p, "refresh")
        /\ args[p].refreshToken \in atCall[p].carried
        /\ atCall[p].users[args[p].refreshToken.uid].password
              # BcryptHash("pw1")
        /\ rv[p].outcome = "ok"

====
